---- MODULE Spec2Model ----
(***************************************************************************)
(* A model of the line-delimited JSON-RPC protocol of simple-python-mcp:   *)
(* the server loop of mcp_server.py (main, handle_request,                 *)
(* get_current_time) and the client role of chatbot.py                     *)
(* (MCPClient.send_request and its three wrappers).                        *)
(*                                                                         *)
(* Python values are tagged records whose leaves are strings; a dict is a  *)
(* sequence of key/value items in insertion order, as in Python.  A JSON   *)
(* document on the wire is a tree whose scalars are their source tokens,   *)
(* so that json.loads and json.dumps are conversions and not the identity. *)
(***************************************************************************)
EXTENDS Integers, Sequences, FiniteSets, TLC

(***************************************************************************)
(* Bounds of the model.                                                    *)
(***************************************************************************)
MaxLines == 2
MaxCalls == 2
MaxRequests == 4
MaxToolCalls == 2

(***************************************************************************)
(* Python values.                                                          *)
(***************************************************************************)
PyNone == [t |-> "NoneType"]
PyInt(s) == [t |-> "int", v |-> s]
PyFloat(s) == [t |-> "float", v |-> s]
PyStr(s) == [t |-> "str", v |-> s]
PyList(elems) == [t |-> "list", elems |-> elems]
PyDict(items) == [t |-> "dict", items |-> items]
Item(k, v) == [k |-> k, v |-> v]

\* The value of a local variable that has not been assigned yet.
Unbound == [t |-> "<unbound>"]

\* key in d
HasKey(d, k) == \E i \in 1..Len(d.items) : d.items[i].k = k

\* d.get(k, default)
DictGet(d, k, default) ==
  IF HasKey(d, k)
    THEN d.items[CHOOSE i \in 1..Len(d.items) : d.items[i].k = k].v
    ELSE default

\* d[k] = v : an existing key keeps its position, a new key goes last
DictSet(d, k, v) ==
  IF HasKey(d, k)
    THEN PyDict([i \in 1..Len(d.items) |->
                   IF d.items[i].k = k THEN Item(k, v) ELSE d.items[i]])
    ELSE PyDict(Append(d.items, Item(k, v)))

(***************************************************************************)
(* Outcomes of a call: a returned value or a raised exception.             *)
(***************************************************************************)
Return(v) == [exc |-> "", val |-> v]
Raise(cls, text) == [exc |-> cls, text |-> text]

\* x.get(...) on a value x that may not be a dict
NoGet(x) == Raise("AttributeError", "'" \o x.t \o "' object has no attribute 'get'")

(***************************************************************************)
(* JSON documents on the wire.  A scalar keeps its lexical class and its   *)
(* source text (for a string, the text between the quotes).                *)
(***************************************************************************)
JString(text) == [j |-> "scalar", lex |-> "string", text |-> text]
JNumber(text) == [j |-> "scalar", lex |-> "number", text |-> text]
JLiteral(text) == [j |-> "scalar", lex |-> "literal", text |-> text]
JArray(elems) == [j |-> "array", elems |-> elems]
JObject(members) == [j |-> "object", members |-> members]
Member(k, v) == [k |-> k, v |-> v]

\* The decoder's handling of escapes in a string token.
Unescape(text) == IF text = "\\u0061" THEN "a" ELSE text

\* Number tokens the decoder reads as a float (they have a fraction or an
\* exponent), and the repr of the float that json.dumps writes back.
FloatTokens == {"1.0", "1e0"}
FloatRepr(text) == IF text \in {"1.0", "1e0"} THEN "1.0" ELSE text

\* json.loads of one scalar token
LoadsScalar(tok) ==
  CASE tok.lex = "string" -> PyStr(Unescape(tok.text))
    [] tok.lex = "number" /\ tok.text \in FloatTokens -> PyFloat(FloatRepr(tok.text))
    [] tok.lex = "number" /\ tok.text \notin FloatTokens -> PyInt(tok.text)
    [] tok.lex = "literal" /\ tok.text = "null" -> PyNone
    [] OTHER -> [t |-> "bool", v |-> tok.text]

\* json.dumps of one scalar value
DumpsScalar(v) ==
  CASE v.t = "str" -> JString(v.v)
    [] v.t \in {"int", "float"} -> JNumber(v.v)
    [] v.t = "NoneType" -> JLiteral("null")
    [] OTHER -> JLiteral(v.v)

\* The decoder on a whole document: containers are rebuilt, an object
\* becomes a dict in which a repeated key keeps its last value.
RECURSIVE Loads(_)
RECURSIVE LoadsMembers(_, _)
LoadsMembers(members, d) ==
  IF members = <<>> THEN d
  ELSE LoadsMembers(Tail(members),
                    DictSet(d, Head(members).k, Loads(Head(members).v)))

Loads(doc) ==
  CASE doc.j = "scalar" -> LoadsScalar(doc)
    [] doc.j = "array" -> PyList([i \in 1..Len(doc.elems) |-> Loads(doc.elems[i])])
    [] doc.j = "object" -> LoadsMembers(doc.members, PyDict(<<>>))

\* The encoder on a whole value.
RECURSIVE Dumps(_)
Dumps(v) ==
  CASE v.t = "list" -> JArray([i \in 1..Len(v.elems) |-> Dumps(v.elems[i])])
    [] v.t = "dict" ->
         JObject([i \in 1..Len(v.items) |->
                    Member(v.items[i].k, Dumps(v.items[i].v))])
    [] OTHER -> DumpsScalar(v)

(***************************************************************************)
(* Lines of text on a pipe.  A line is a JSON document, text that is not   *)
(* JSON ("garbage", or a blank line), or a JSON document the decoder gives *)
(* up on with an error that is not a JSONDecodeError (nesting beyond the   *)
(* recursion limit raises RecursionError).                                 *)
(***************************************************************************)
JsonLine(doc) == [kind |-> "json", doc |-> doc]
GarbageLine == [kind |-> "garbage"]
BlankLine == [kind |-> "blank"]
DeepLine == [kind |-> "deep"]

\* A variant of json_loads whose failure on text that is not JSON is a plain
\* ValueError, which "except json.JSONDecodeError" does not catch.
json_loads_value_error(line) ==
  CASE line.kind = "json" -> Return(Loads(line.doc))
    [] line.kind = "deep" ->
         Raise("RecursionError", "maximum recursion depth exceeded")
    [] OTHER -> Raise("ValueError", "Expecting value")

\* json.loads(line)
json_loads(line) ==
  CASE line.kind = "json" -> Return(Loads(line.doc))
    [] line.kind = "deep" ->
         Raise("RecursionError", "maximum recursion depth exceeded")
    [] OTHER -> Raise("JSONDecodeError", "Expecting value")

\* json.dumps(value) + newline
json_dumps(v) == JsonLine(Dumps(v))

(***************************************************************************)
(* mcp_server.py                                                           *)
(***************************************************************************)
Pad(n, width) ==
  IF width = 4 /\ n < 10 THEN "000" \o ToString(n)
  ELSE IF width = 4 /\ n < 100 THEN "00" \o ToString(n)
  ELSE IF width = 4 /\ n < 1000 THEN "0" \o ToString(n)
  ELSE IF width = 2 /\ n < 10 THEN "0" \o ToString(n)
  ELSE ToString(n)

\* now.strftime("%Y-%m-%d %H:%M:%S")
strftime(now) ==
  Pad(now.year, 4) \o "-" \o Pad(now.month, 2) \o "-" \o Pad(now.day, 2) \o " "
    \o Pad(now.hour, 2) \o ":" \o Pad(now.minute, 2) \o ":" \o Pad(now.second, 2)

\* get_current_time(), with the reading of the clock as its input
get_current_time(now) == PyStr(strftime(now))

\* The readings of the clock the model draws from.
Times ==
  { [year |-> 2025, month |-> 3, day |-> 26, hour |-> 9, minute |-> 5, second |-> 7],
    [year |-> 2026, month |-> 11, day |-> 2, hour |-> 23, minute |-> 59, second |-> 59] }

\* Variants of MethodNotFound: another code, and a result beside the error.
MethodNotFoundAsInvalidRequest ==
  PyDict(<<Item("error", PyDict(<<Item("code", PyInt("-32600")),
                                  Item("message", PyStr("Method not found"))>>))>>)

MethodNotFoundWithResult ==
  PyDict(<<Item("result", PyNone),
           Item("error", PyDict(<<Item("code", PyInt("-32601")),
                                  Item("message", PyStr("Method not found"))>>))>>)

MethodNotFound ==
  PyDict(<<Item("error", PyDict(<<Item("code", PyInt("-32601")),
                                  Item("message", PyStr("Method not found"))>>))>>)

\* A variant of ToolDescriptors that lists the tool under another name.
ToolDescriptorsRenamed ==
  PyList(<<PyDict(<<Item("name", PyStr("get_time")),
                    Item("description", PyStr("Get the current date and time")),
                    Item("input_schema",
                         PyDict(<<Item("type", PyStr("object")),
                                  Item("properties", PyDict(<<>>))>>))>>)>>)

\* lines 47-54: the "tools" list of the tools/list result
ToolDescriptors ==
  PyList(<<PyDict(<<Item("name", PyStr("get_current_time")),
                    Item("description", PyStr("Get the current date and time")),
                    Item("input_schema",
                         PyDict(<<Item("type", PyStr("object")),
                                  Item("properties", PyDict(<<>>))>>))>>)>>)

\* line 44: the result of initialize
initialize_result ==
  PyDict(<<Item("protocolVersion", PyStr("2025-03-26")),
           Item("capabilities", PyDict(<<>>))>>)

\* A variant of call_result that wraps the value in a list.
call_result_in_list(result) == PyDict(<<Item("result", PyList(<<result>>))>>)

\* line 63: return {"result": result}
call_result(result) == PyDict(<<Item("result", result)>>)

\* handle_request(request); now is what the clock reads if a tool reads it
handle_request(request, now) ==
  IF request.t # "dict" THEN NoGet(request)
  ELSE
    LET method == DictGet(request, "method", PyNone) IN
    IF method = PyStr("initialize") THEN
      Return(PyDict(<<Item("result", initialize_result)>>))
    ELSE IF method = PyStr("tools/list") THEN
      Return(PyDict(<<Item("result", PyDict(<<Item("tools", ToolDescriptors)>>))>>))
    ELSE IF method = PyStr("tools/call") THEN
      LET params == DictGet(request, "params", PyDict(<<>>)) IN
      IF params.t # "dict" THEN NoGet(params)
      ELSE
        LET tool_name == DictGet(params, "name", PyNone) IN
        IF tool_name = PyStr("get_current_time")
          THEN Return(call_result(get_current_time(now)))
          ELSE Return(MethodNotFound)
    ELSE Return(MethodNotFound)

\* Whether handle_request(request) reads the clock.
CallsTool(request) ==
  /\ request.t = "dict"
  /\ DictGet(request, "method", PyNone) = PyStr("tools/call")
  /\ DictGet(request, "params", PyDict(<<>>)).t = "dict"
  /\ DictGet(DictGet(request, "params", PyDict(<<>>)), "name", PyNone)
       = PyStr("get_current_time")

\* The error_response of the handler of "except Exception as e", built
\* from the exception and from whatever the variable request holds then.
error_response(req, e) ==
  IF req.t = "<unbound>" THEN Raise("UnboundLocalError", "request")
  ELSE IF req.t # "dict" THEN NoGet(req)
  ELSE Return(PyDict(<<Item("jsonrpc", PyStr("2.0")),
                       Item("id", DictGet(req, "id", PyNone)),
                       Item("error",
                            PyDict(<<Item("code", PyInt("-32603")),
                                     Item("message",
                                          PyStr("Internal error: " \o e.text))>>))>>))

\* A variant of with_id that forgets the request.
with_null_id(response, req) == DictSet(response, "id", PyNone)

\* line 91: response['id'] = request.get('id')
with_id(response, req) == DictSet(response, "id", DictGet(req, "id", PyNone))

\* A variant of print_line that prints nothing.
print_nothing(obj) == <<>>

\* A variant of print_line that prints the line twice.
print_line_twice(obj) == <<json_dumps(obj), json_dumps(obj)>>

\* lines 94-95 and 107-108: print(json.dumps(...)) and flush
print_line(obj) == <<json_dumps(obj)>>

\* One pass through the body of the try statement of main for one line:
\* what is printed (print is a sequence of zero or one lines), what the
\* variable request holds afterwards, and the exception that leaves main,
\* if any.
try_body(line, req, now) ==
  LET parsed == json_loads(line) IN
  IF parsed.exc = "JSONDecodeError" THEN
    [print |-> <<>>, request |-> req, uncaught |-> ""]
  ELSE IF parsed.exc # "" THEN
    LET er == error_response(req, parsed) IN
    IF er.exc # "" THEN [print |-> <<>>, request |-> req, uncaught |-> er.exc]
    ELSE [print |-> print_line(er.val), request |-> req, uncaught |-> ""]
  ELSE
    LET request == parsed.val
        handled == handle_request(request, now)
    IN
    IF handled.exc = "" THEN
      LET response == with_id(handled.val, request) IN
      [print |-> print_line(response), request |-> request, uncaught |-> ""]
    ELSE
      LET er == error_response(request, handled) IN
      IF er.exc # "" THEN [print |-> <<>>, request |-> request, uncaught |-> er.exc]
      ELSE [print |-> print_line(er.val), request |-> request, uncaught |-> ""]

(***************************************************************************)
(* State.                                                                  *)
(***************************************************************************)
VARIABLES
  srv_stdin,     \* lines written to the server's stdin and not yet read
  stdin_closed,  \* the write end of the server's stdin is closed
  srv_pc,        \* "Listening" (in readline), "Dispatching", "Stopped"
  srv_line,      \* main's variable line
  request,       \* main's variable request
  srv_stdout,    \* every line the server has printed, in order
  srv_error,     \* the exception that ended the server process, "" if none
  read_log,      \* history: every line readline has returned
  resp_log,      \* history: for each printed line, the line that caused it
  request_id,    \* MCPClient.request_id
  cli_pc,        \* "idle", or "reading" (send_request is in readline)
  cli_read,      \* how many lines of srv_stdout the client has consumed
  sent,          \* history: the request built by each send_request call
  outcomes,      \* history: how each send_request call ended
  main_pc,       \* where main of chatbot.py is
  tool_calls,    \* main's tool_calls not yet executed
  messages,      \* main's list messages
  turn           \* history: the tool_calls of the current turn, and
                 \* request_id when the turn began

srv_vars == <<srv_stdin, stdin_closed, srv_pc, srv_line, request, srv_stdout,
              srv_error, read_log, resp_log>>

main_vars == <<main_pc, tool_calls, messages, turn>>

cli_vars == <<request_id, cli_pc, cli_read, sent, outcomes, main_vars>>

vars == <<srv_vars, cli_vars>>

NoLine == [kind |-> "none"]

(***************************************************************************)
(* The lines the environment writes to a server that is run on its own.    *)
(***************************************************************************)
Obj(members) == JsonLine(JObject(members))
NameAndInput(tok) == JObject(<<Member("name", tok), Member("input", JObject(<<>>))>>)

ObjectLines ==
  { Obj(<<Member("jsonrpc", JString("2.0")), Member("id", JNumber("1")),
          Member("method", JString("initialize")), Member("params", JObject(<<>>))>>),
    Obj(<<Member("id", JNumber("2")), Member("method", JString("tools/list"))>>),
    Obj(<<Member("id", JNumber("3")), Member("method", JString("tools/call")),
          Member("params", NameAndInput(JString("get_current_time")))>>),
    Obj(<<Member("id", JNumber("7")), Member("method", JString("tools/call")),
          Member("params", NameAndInput(JString("bogus")))>>),
    Obj(<<Member("id", JNumber("1e0")), Member("method", JString("tools/call")),
          Member("params", JArray(<<>>))>>),
    Obj(<<Member("method", JString("tools/call")),
          Member("params", JLiteral("null"))>>),
    Obj(<<Member("id", JString("\\u0061")), Member("method", JString("tools/call")),
          Member("params", JString("s"))>>),
    Obj(<<Member("id", JNumber("2")), Member("method", JString("tools/call"))>>),
    Obj(<<Member("id", JNumber("1")), Member("method", JString("tools/call")),
          Member("params", JObject(<<Member("name", JLiteral("null"))>>))>>),
    Obj(<<Member("id", JString("\\u0061")), Member("method", JString("tools/call")),
          Member("params", JObject(<<Member("name", JString("get_current_time"))>>))>>),
    Obj(<<Member("id", JNumber("2")), Member("method", JString("bogus"))>>),
    Obj(<<Member("id", JNumber("3")), Member("method", JNumber("7"))>>),
    Obj(<<Member("id", JNumber("1"))>>),
    Obj(<<>>),
    Obj(<<Member("id", JLiteral("null")), Member("method", JString("initialize"))>>),
    Obj(<<Member("id", JNumber("1")), Member("id", JNumber("2")),
          Member("method", JString("tools/list"))>>) }

NonObjectLines ==
  { JsonLine(JArray(<<>>)), JsonLine(JNumber("1")), JsonLine(JLiteral("null")),
    JsonLine(JString("initialize")) }

RequestLines ==
  ObjectLines \cup NonObjectLines \cup {GarbageLine, BlankLine, DeepLine}

(***************************************************************************)
(* The server loop: main of mcp_server.py.                                 *)
(***************************************************************************)
\* line = sys.stdin.readline(); if not line: break
main_readline ==
  /\ srv_pc = "Listening"
  /\ \/ /\ srv_stdin # <<>>
        /\ srv_line' = Head(srv_stdin)
        /\ srv_stdin' = Tail(srv_stdin)
        /\ read_log' = Append(read_log, Head(srv_stdin))
        /\ srv_pc' = "Dispatching"
     \/ /\ srv_stdin = <<>>
        /\ stdin_closed
        /\ srv_pc' = "Stopped"
        /\ UNCHANGED <<srv_line, srv_stdin, read_log>>
  /\ UNCHANGED <<stdin_closed, request, srv_stdout, srv_error, resp_log>>
  /\ UNCHANGED cli_vars

\* the try statement, for the line just read
main_dispatch ==
  /\ srv_pc = "Dispatching"
  /\ \E now \in Times :
       LET done == try_body(srv_line, request, now) IN
       /\ request' = done.request
       /\ srv_stdout' = srv_stdout \o done.print
       /\ resp_log' =
            IF done.print = <<>> THEN resp_log
            ELSE Append(resp_log,
                        [line_no |-> Len(read_log),
                         tool_ret |-> IF json_loads(srv_line).exc = ""
                                         /\ CallsTool(done.request)
                                        THEN get_current_time(now) ELSE Unbound])
       /\ srv_error' = done.uncaught
       /\ srv_pc' = IF done.uncaught = "" THEN "Listening" ELSE "Stopped"
  /\ srv_line' = NoLine
  /\ UNCHANGED <<srv_stdin, stdin_closed, read_log>>
  /\ UNCHANGED cli_vars

(***************************************************************************)
(* The server on its own: the environment writes any lines to its stdin    *)
(* and closes it at any time.                                              *)
(***************************************************************************)
WriteLine ==
  /\ ~stdin_closed
  /\ Len(read_log) + Len(srv_stdin) < MaxLines
  /\ \E l \in RequestLines : srv_stdin' = Append(srv_stdin, l)
  /\ UNCHANGED <<stdin_closed, srv_pc, srv_line, request, srv_stdout, srv_error,
                 read_log, resp_log>>
  /\ UNCHANGED cli_vars

CloseStdin ==
  /\ ~stdin_closed
  /\ stdin_closed' = TRUE
  /\ UNCHANGED <<srv_stdin, srv_pc, srv_line, request, srv_stdout, srv_error,
                 read_log, resp_log>>
  /\ UNCHANGED cli_vars

ServerInit ==
  /\ srv_stdin = <<>>
  /\ stdin_closed = FALSE
  /\ srv_pc = "Listening"
  /\ srv_line = NoLine
  /\ request = Unbound
  /\ srv_stdout = <<>>
  /\ srv_error = ""
  /\ read_log = <<>>
  /\ resp_log = <<>>

ClientInit ==
  /\ request_id = 0
  /\ cli_pc = "idle"
  /\ cli_read = 0
  /\ sent = <<>>
  /\ outcomes = <<>>
  /\ main_pc = "line102"
  /\ tool_calls = <<>>
  /\ messages = <<>>
  /\ turn = [calls |-> <<>>, base |-> 0]

Init == ServerInit /\ ClientInit

Next == main_readline \/ main_dispatch \/ WriteLine \/ CloseStdin

Spec == Init /\ [][Next]_vars

(***************************************************************************)
(* chatbot.py: MCPClient                                                   *)
(***************************************************************************)
\* What readline returns at end of stream: the empty string.
EndOfStream == [kind |-> "eof"]

\* An exception raised with a value as its only argument.
RaiseArgs(cls, args) == [exc |-> cls, args |-> args]

\* The dict of lines 49-54; "params or {}" replaces None and the empty dict
build_request(id, method, params) ==
  PyDict(<<Item("jsonrpc", PyStr("2.0")),
           Item("id", PyInt(ToString(id))),
           Item("method", PyStr(method)),
           Item("params", IF params = PyNone THEN PyDict(<<>>) ELSE params)>>)

\* x[key] for a value that may not be a dict
Subscript(x, key) ==
  IF x.t = "dict"
    THEN IF HasKey(x, key) THEN Return(DictGet(x, key, PyNone))
         ELSE Raise("KeyError", key)
    ELSE IF x.t = "list"
      THEN Raise("TypeError", "list indices must be integers or slices, not str")
    ELSE IF x.t = "str"
      THEN Raise("TypeError", "string indices must be integers, not 'str'")
    ELSE Raise("TypeError", "'" \o x.t \o "' object is not subscriptable")

\* A variant of ErrorIn that never finds the key.
ErrorNeverIn(response) == Return(FALSE)

\* 'error' in response, for a response that may not be a dict
ErrorIn(response) ==
  CASE response.t = "dict" -> Return(HasKey(response, "error"))
    [] response.t = "list" ->
         Return(\E i \in 1..Len(response.elems) : response.elems[i] = PyStr("error"))
    [] response.t = "str" -> Return(response.v = "error")
    [] OTHER -> Raise("TypeError", "argument of type '" \o response.t
                                     \o "' is not iterable")

\* Lines 59-62 of send_request on the line readline returned
decode_response(response_line) ==
  LET parsed == json_loads(response_line) IN
  IF parsed.exc # "" THEN parsed
  ELSE
    LET response == parsed.val
        has_error == ErrorIn(response)
    IN
    IF has_error.exc # "" THEN has_error
    ELSE IF has_error.val THEN
      LET error == Subscript(response, "error") IN
      IF error.exc # "" THEN error
      ELSE
        LET message == Subscript(error.val, "message") IN
        IF message.exc # "" THEN message
        ELSE RaiseArgs("Exception", <<message.val>>)
    ELSE Subscript(response, "result")

\* A variant of next_request_id that does not count.
same_request_id(n) == n

\* line 48: self.request_id += 1
next_request_id(n) == n + 1

\* Lines 48-56 of send_request: count, build, write and flush.  The write
\* fails when the process at the other end of the pipe has ended.
send_request(method, params) ==
  LET id == next_request_id(request_id)
      req == build_request(id, method, params)
  IN
  /\ cli_pc = "idle"
  /\ request_id' = id
  /\ sent' = Append(sent, [id |-> id, line |-> json_dumps(req),
                           written |-> srv_pc # "Stopped"])
  /\ IF srv_pc = "Stopped"
       THEN /\ outcomes' = Append(outcomes,
                                  [id |-> id, line |-> NoLine,
                                   end |-> Raise("BrokenPipeError", "Broken pipe")])
            /\ UNCHANGED <<srv_stdin, cli_pc>>
       ELSE /\ srv_stdin' = Append(srv_stdin, json_dumps(req))
            /\ cli_pc' = "reading"
            /\ UNCHANGED outcomes
  /\ UNCHANGED <<stdin_closed, srv_pc, srv_line, request, srv_stdout, srv_error,
                 read_log, resp_log, cli_read>>

\* A variant of readline_returns that waits for a line for ever.
readline_returns_lines_only == cli_read < Len(srv_stdout)

\* line 58: readline is blocking; it returns when the peer has printed a line
\* the client has not consumed, or when the peer has ended
readline_returns == cli_read < Len(srv_stdout) \/ srv_pc = "Stopped"

\* Lines 58-62 of send_request: readline returns the next line the peer
\* printed, or the empty string once the peer has ended; then decode.
send_request_read ==
  /\ cli_pc = "reading"
  /\ readline_returns
  /\ \/ /\ cli_read < Len(srv_stdout)
        /\ cli_read' = cli_read + 1
        /\ outcomes' = Append(outcomes,
                              [id |-> request_id, line |-> srv_stdout[cli_read + 1],
                               end |-> decode_response(srv_stdout[cli_read + 1])])
     \/ /\ cli_read = Len(srv_stdout)
        /\ srv_pc = "Stopped"
        /\ cli_read' = cli_read
        /\ outcomes' = Append(outcomes,
                              [id |-> request_id, line |-> EndOfStream,
                               end |-> decode_response(EndOfStream)])
  /\ cli_pc' = "idle"
  /\ UNCHANGED <<request_id, sent>>
  /\ UNCHANGED main_vars
  /\ UNCHANGED srv_vars

ToolNames == {"get_current_time", "bogus"}

ToolParams(name) ==
  PyDict(<<Item("name", PyStr(name)), Item("input", PyDict(<<>>))>>)

initialize ==
  /\ request_id < MaxCalls
  /\ send_request("initialize", PyNone)
  /\ UNCHANGED main_vars

list_tools ==
  /\ request_id < MaxCalls
  /\ send_request("tools/list", PyNone)
  /\ UNCHANGED main_vars

call_tool ==
  /\ request_id < MaxCalls
  /\ \E name \in ToolNames : send_request("tools/call", ToolParams(name))
  /\ UNCHANGED main_vars

(***************************************************************************)
(* The client on its own: the caller makes any calls in any order, and the *)
(* process started from server_command prints any lines and ends at any    *)
(* time.                                                                   *)
(***************************************************************************)
Resp(members) == JsonLine(JObject(members))
ErrorObject(code, message) ==
  JObject(<<Member("code", JNumber(code)), Member("message", JString(message))>>)

PeerLines ==
  { Resp(<<Member("result", JString("2025-03-26 09:05:07")), Member("id", JNumber("1"))>>),
    Resp(<<Member("error", ErrorObject("-32601", "Method not found")),
           Member("id", JNumber("1"))>>),
    Resp(<<Member("jsonrpc", JString("2.0")), Member("id", JNumber("3")),
           Member("error", ErrorObject("-32603", "Internal error: boom"))>>),
    Resp(<<Member("error", ErrorObject("-32603", "Method not found")),
           Member("id", JLiteral("null"))>>),
    Resp(<<Member("result", JString("x")),
           Member("error", ErrorObject("-32603", "Internal error: boom")),
           Member("id", JNumber("1"))>>),
    Resp(<<Member("error", JObject(<<Member("code", JNumber("-32601"))>>)),
           Member("id", JNumber("1"))>>),
    Resp(<<Member("id", JNumber("1"))>>),
    JsonLine(JArray(<<JString("error")>>)),
    GarbageLine }

PeerWrite ==
  /\ srv_pc # "Stopped"
  /\ Len(srv_stdout) < MaxLines
  /\ \E l \in PeerLines : srv_stdout' = Append(srv_stdout, l)
  /\ UNCHANGED <<srv_stdin, stdin_closed, srv_pc, srv_line, request, srv_error,
                 read_log, resp_log>>
  /\ UNCHANGED cli_vars

PeerExit ==
  /\ srv_pc # "Stopped"
  /\ srv_pc' = "Stopped"
  /\ UNCHANGED <<srv_stdin, stdin_closed, srv_line, request, srv_stdout, srv_error,
                 read_log, resp_log>>
  /\ UNCHANGED cli_vars

NextClient ==
  initialize \/ list_tools \/ call_tool \/ send_request_read \/ PeerWrite \/ PeerExit

SpecClient == Init /\ [][NextClient]_vars

(***************************************************************************)
(* chatbot.py: main, as far as it drives the MCPClient.  main_pc names the *)
(* line main is at; "awaitN" means the call made at line N has not come    *)
(* back yet.                                                               *)
(***************************************************************************)
\* lines 135-139: the name, input and id of one tool_use block; the k-th
\* block of a turn has its own id
ToolCall(name, k) ==
  [name |-> name, input |-> PyDict(<<>>), id |-> "toolu_" \o ToString(k)]

\* The sequences of tool_use blocks a model turn may hold.
ToolCallSeqs ==
  UNION { { [k \in 1..n |-> ToolCall(f[k], k)] : f \in [1..n -> ToolNames] } :
          n \in 0..MaxToolCalls }

\* line 114 and line 144: the messages a turn starts with
user_message == [role |-> "user", content |-> "What time is it?"]
assistant_message(calls) == [role |-> "assistant", content |-> calls]

\* str(e) for the exceptions send_request raises
exc_str(end) ==
  CASE end.exc = "Exception" ->
         IF end.args[1].t = "NoneType" THEN "None" ELSE end.args[1].v
    [] end.exc = "KeyError" -> "'" \o end.text \o "'"
    [] end.exc = "JSONDecodeError" -> end.text \o ": line 1 column 1 (char 0)"
    [] end.exc = "BrokenPipeError" -> "[Errno 32] " \o end.text
    [] OTHER -> end.text

\* A variant of tool_result_message that does not mark a failure.
tool_result_message_unmarked(tool_call, end) ==
  [role |-> "user",
   content |-> <<[type |-> "tool_result", tool_use_id |-> tool_call.id,
                  content |-> IF end.exc = "" THEN end.val
                              ELSE PyStr("Error: " \o exc_str(end))]>>]

\* lines 154-163 and 169-179: the message appended for one tool call, from
\* how call_tool ended
tool_result_message(tool_call, end) ==
  IF end.exc = ""
    THEN [role |-> "user",
          content |-> <<[type |-> "tool_result", tool_use_id |-> tool_call.id,
                         content |-> end.val]>>]
    ELSE [role |-> "user",
          content |-> <<[type |-> "tool_result", tool_use_id |-> tool_call.id,
                         content |-> PyStr("Error: " \o exc_str(end)),
                         is_error |-> TRUE]>>]

\* A variant of after_setup_call that goes on after a failure.
after_setup_call_anyway(end, next_pc) == next_pc

\* lines 102-105 are in no try statement: an exception ends main
after_setup_call(end, next_pc) == IF end.exc = "" THEN next_pc ELSE "exited"

\* line 102: mcp_client.initialize()
chatbot_initialize ==
  /\ main_pc = "line102"
  /\ send_request("initialize", PyNone)
  /\ main_pc' = "await102"
  /\ UNCHANGED <<tool_calls, messages, turn>>

\* line 103: mcp_client.list_tools()
chatbot_list_tools ==
  /\ main_pc = "line103"
  /\ send_request("tools/list", PyNone)
  /\ main_pc' = "await103"
  /\ UNCHANGED <<tool_calls, messages, turn>>

\* lines 109-144: the user's input and the model's turn.  "exit" ends main;
\* otherwise the turn holds some tool_use blocks, or none.
chatbot_turn ==
  /\ main_pc = "line109"
  /\ \/ /\ main_pc' = "exited"
        /\ stdin_closed' = TRUE
        /\ UNCHANGED <<tool_calls, messages, turn>>
     \/ /\ \E calls \in ToolCallSeqs :
             /\ request_id + Len(calls) <= MaxRequests
             /\ tool_calls' = calls
             /\ turn' = [calls |-> calls, base |-> request_id]
             /\ messages' = IF calls = <<>> THEN <<user_message>>
                            ELSE <<user_message, assistant_message(calls)>>
             /\ main_pc' = IF calls = <<>> THEN "line109" ELSE "line150"
        /\ UNCHANGED stdin_closed
  /\ UNCHANGED <<srv_stdin, srv_pc, srv_line, request, srv_stdout, srv_error,
                 read_log, resp_log>>
  /\ UNCHANGED <<request_id, cli_pc, cli_read, sent, outcomes>>

\* line 150: mcp_client.call_tool(tool_call["name"], tool_call["input"])
chatbot_call_tool ==
  /\ main_pc = "line150"
  /\ tool_calls # <<>>
  /\ send_request("tools/call", ToolParams(Head(tool_calls).name))
  /\ main_pc' = "await150"
  /\ UNCHANGED <<tool_calls, messages, turn>>

\* What main does when the call it made comes back.  An exception out of
\* lines 102-105 is not caught and ends the process; one out of line 150 is
\* caught at line 166 and the loop over tool_calls goes on.
chatbot_resume ==
  /\ main_pc \in {"await102", "await103", "await150"}
  /\ cli_pc = "idle"
  /\ LET end == outcomes[Len(outcomes)].end IN
     \/ /\ main_pc = "await102"
        /\ main_pc' = after_setup_call(end, "line103")
        /\ stdin_closed' = (main_pc' = "exited")
        /\ UNCHANGED <<tool_calls, messages, turn>>
     \/ /\ main_pc = "await103"
        /\ LET tools == IF end.exc = "" THEN Subscript(end.val, "tools") ELSE end IN
           main_pc' = after_setup_call(tools, "line109")
        /\ stdin_closed' = (main_pc' = "exited")
        /\ UNCHANGED <<tool_calls, messages, turn>>
     \/ /\ main_pc = "await150"
        /\ messages' = Append(messages, tool_result_message(Head(tool_calls), end))
        /\ tool_calls' = Tail(tool_calls)
        /\ main_pc' = IF Tail(tool_calls) = <<>> THEN "line109" ELSE "line150"
        /\ UNCHANGED <<stdin_closed, turn>>
  /\ UNCHANGED <<srv_stdin, srv_pc, srv_line, request, srv_stdout, srv_error,
                 read_log, resp_log>>
  /\ UNCHANGED <<request_id, cli_pc, cli_read, sent, outcomes>>

\* The server process is ended from outside (a signal).
ServerKilled ==
  /\ srv_pc # "Stopped"
  /\ srv_pc' = "Stopped"
  /\ srv_error' = "killed"
  /\ srv_line' = NoLine
  /\ UNCHANGED <<srv_stdin, stdin_closed, request, srv_stdout, read_log, resp_log>>
  /\ UNCHANGED cli_vars

NextSys ==
  \/ chatbot_initialize \/ chatbot_list_tools \/ chatbot_turn \/ chatbot_call_tool
  \/ chatbot_resume \/ send_request_read
  \/ main_readline \/ main_dispatch \/ ServerKilled

SpecSys == Init /\ [][NextSys]_vars

(***************************************************************************)
(* Properties.  The histories relate each printed line to the line that    *)
(* was being dispatched when it was printed.                               *)
(***************************************************************************)
\* The line that the i-th printed line answers, and the value it encodes.
Answered(i) == read_log[resp_log[i].line_no]
Response(i) == Loads(srv_stdout[i].doc)

\* The printed lines that answer the n-th line read.
Responses(n) == {i \in 1..Len(srv_stdout) : resp_log[i].line_no = n}

\* The n-th line read has been through the try statement.
Dispatched(n) == n < Len(read_log) \/ (n = Len(read_log) /\ srv_pc # "Dispatching")

\* A line holding a JSON object, a line that is not JSON.
IsRequestLine(l) == l.kind = "json" /\ l.doc.j = "object"
IsMalformedLine(l) == l.kind \in {"garbage", "blank"}
RequestOf(l) == Loads(l.doc)

ErrorValue(code, message) ==
  PyDict(<<Item("code", PyInt(code)), Item("message", PyStr(message))>>)

\* C1: in one MCPClient session the k-th send_request call, whatever became
\* of the calls before it, builds a request whose id is k: the ids start at 1,
\* grow strictly and are never reused.
C1_IdsCountFromOne ==
  /\ request_id = Len(sent)
  /\ \A k \in 1..Len(sent) :
       /\ sent[k].id = k
       /\ DictGet(RequestOf(sent[k].line), "id", PyNone) = PyInt(ToString(k))
  /\ \A j, k \in 1..Len(sent) : j < k => sent[j].id < sent[k].id

\* C1 witness: a call that ended in a remote error is followed by a call
\* whose write failed, and that one used id 2.
C1_Witness ==
  /\ Len(sent) = 2
  /\ Len(outcomes) = 2
  /\ outcomes[1].end.exc = "Exception"
  /\ outcomes[2].end.exc = "BrokenPipeError"
  /\ sent[2].id = 2

\* C2: the line printed for a request line (a JSON object) carries the id of
\* that request (null when the request has none), on the success path and on
\* the -32601 and -32603 paths.
C2_ResponseEchoesId ==
  \A i \in 1..Len(srv_stdout) :
    IsRequestLine(Answered(i)) =>
      /\ HasKey(Response(i), "id")
      /\ DictGet(Response(i), "id", Unbound)
           = DictGet(RequestOf(Answered(i)), "id", PyNone)

\* C2 witness: a -32603 response to a request whose id was written 1e0.
C2_Witness ==
  \E i \in 1..Len(srv_stdout) :
    /\ IsRequestLine(Answered(i))
    /\ HasKey(RequestOf(Answered(i)), "id")
    /\ HasKey(Response(i), "error")
    /\ DictGet(DictGet(Response(i), "error", PyNone), "code", PyNone) = PyInt("-32603")
    /\ DictGet(Response(i), "id", Unbound) = PyFloat("1.0")

\* A tools/call request whose params is an object (or absent) and names the
\* tool, or does not.
IsToolsCall(req) ==
  /\ DictGet(req, "method", PyNone) = PyStr("tools/call")
  /\ DictGet(req, "params", PyDict(<<>>)).t = "dict"
NamedTool(req) == DictGet(DictGet(req, "params", PyDict(<<>>)), "name", PyNone)

\* C3: a tools/call request whose params names no registered tool (another
\* name, or no name at all) is answered by exactly one line, which holds the
\* error -32601 "Method not found" and no result.
C3_UnknownToolIsMethodNotFound ==
  \A n \in 1..Len(read_log) :
    ( /\ Dispatched(n)
      /\ IsRequestLine(read_log[n])
      /\ IsToolsCall(RequestOf(read_log[n]))
      /\ NamedTool(RequestOf(read_log[n])) # PyStr("get_current_time") ) =>
        /\ Cardinality(Responses(n)) = 1
        /\ \A i \in Responses(n) :
             /\ ~HasKey(Response(i), "result")
             /\ DictGet(Response(i), "error", PyNone)
                  = ErrorValue("-32601", "Method not found")

\* C3 witness: a tools/call request without params has been answered -32601.
C3_Witness ==
  \E i \in 1..Len(srv_stdout) :
    /\ IsRequestLine(Answered(i))
    /\ IsToolsCall(RequestOf(Answered(i)))
    /\ ~HasKey(RequestOf(Answered(i)), "params")
    /\ HasKey(Response(i), "error")

\* C4: a tools/call request that names get_current_time is answered by
\* exactly one line, whose result is the value the handler returned and which
\* holds no error.
C4_ToolResultUnchanged ==
  \A n \in 1..Len(read_log) :
    ( /\ Dispatched(n)
      /\ IsRequestLine(read_log[n])
      /\ IsToolsCall(RequestOf(read_log[n]))
      /\ NamedTool(RequestOf(read_log[n])) = PyStr("get_current_time") ) =>
        /\ Cardinality(Responses(n)) = 1
        /\ \A i \in Responses(n) :
             /\ resp_log[i].tool_ret \in {get_current_time(t) : t \in Times}
             /\ HasKey(Response(i), "result")
             /\ DictGet(Response(i), "result", Unbound) = resp_log[i].tool_ret
             /\ ~HasKey(Response(i), "error")

\* C4 witness: the handler returned "2025-03-26 09:05:07" and the response
\* carries it.
C4_Witness ==
  \E i \in 1..Len(srv_stdout) :
    /\ resp_log[i].tool_ret = PyStr("2025-03-26 09:05:07")
    /\ DictGet(Response(i), "result", Unbound) = PyStr("2025-03-26 09:05:07")

\* C5: as long as the lines read are malformed lines (not JSON) and request
\* lines (JSON objects), a malformed line gets no response and does not end
\* the loop, each request line gets exactly one, and so the number of lines
\* printed is the number of request lines dispatched.
C5_MalformedLinesAreDropped ==
  (\A n \in 1..Len(read_log) :
      IsMalformedLine(read_log[n]) \/ IsRequestLine(read_log[n])) =>
    /\ srv_error = ""
    /\ srv_pc = "Stopped" => (stdin_closed /\ srv_stdin = <<>>)
    /\ \A n \in 1..Len(read_log) :
         Dispatched(n) =>
           Cardinality(Responses(n)) = IF IsRequestLine(read_log[n]) THEN 1 ELSE 0
    /\ Len(srv_stdout)
         = Cardinality({n \in 1..Len(read_log) :
                          Dispatched(n) /\ IsRequestLine(read_log[n])})

\* C5 witness: a malformed line, then a request line, both dispatched, and
\* one line printed.
C5_Witness ==
  /\ Len(read_log) = 2
  /\ IsMalformedLine(read_log[1])
  /\ IsRequestLine(read_log[2])
  /\ srv_pc = "Listening"
  /\ Len(srv_stdout) = 1

\* C6: every printed line holds exactly one of the keys result and error.
C6_ResultXorError ==
  \A i \in 1..Len(srv_stdout) :
    /\ srv_stdout[i].kind = "json"
    /\ Response(i).t = "dict"
    /\ HasKey(Response(i), "result") # HasKey(Response(i), "error")

\* C6 witness: a success response and the error response of the except
\* handler have both been printed.
C6_Witness ==
  /\ \E i \in 1..Len(srv_stdout) : HasKey(Response(i), "result")
  /\ \E i \in 1..Len(srv_stdout) :
       /\ HasKey(Response(i), "error")
       /\ HasKey(Response(i), "jsonrpc")

\* C7: every line that decodes and on which handle_request raises is answered
\* by exactly one line, the error -32603 with the exception's text and the
\* request's id, and the server does not end because of it.
C7_HandlerErrorsAreAnswered ==
  \A n \in 1..Len(read_log) :
    LET l == read_log[n]
        raised == handle_request(RequestOf(l), CHOOSE t \in Times : TRUE)
    IN
    (Dispatched(n) /\ l.kind = "json" /\ raised.exc # "") =>
      /\ n = Len(read_log) => srv_error = ""
      /\ Cardinality(Responses(n)) = 1
      /\ \A i \in Responses(n) :
           /\ DictGet(Response(i), "error", PyNone)
                = ErrorValue("-32603", "Internal error: " \o raised.text)
           /\ RequestOf(l).t = "dict" =>
                DictGet(Response(i), "id", Unbound)
                  = DictGet(RequestOf(l), "id", PyNone)

\* C8: the server is Stopped only after its input reached end of stream, and
\* then it ended without an error: no line makes the loop stop.
C8_StoppedOnlyAtEndOfStream ==
  srv_pc = "Stopped" => (stdin_closed /\ srv_stdin = <<>> /\ srv_error = "")

\* The error object of the line a call decoded, if it has one.
DecodedError(o) ==
  IF o.line.kind = "json" /\ RequestOf(o.line).t = "dict"
       /\ HasKey(RequestOf(o.line), "error")
    THEN DictGet(RequestOf(o.line), "error", PyNone)
    ELSE Unbound
HasCodeAndMessage(e) == e.t = "dict" /\ HasKey(e, "code") /\ HasKey(e, "message")

\* C9 as stated: a call that decoded an error object fails with an exception
\* built from the code and the message of that object.
C9_FailureCarriesCodeAndMessage ==
  \A k \in 1..Len(outcomes) :
    LET e == DecodedError(outcomes[k]) IN
    HasCodeAndMessage(e) =>
      /\ outcomes[k].end.exc = "Exception"
      /\ outcomes[k].end.args
           = <<DictGet(e, "code", PyNone), DictGet(e, "message", PyNone)>>

\* C9 amended: a call that decoded a response with an error key fails, it
\* never returns a result, and when the error object has a message the
\* exception raised is Exception(message): the code is not part of it.
C9_FailureCarriesMessageOnly ==
  \A k \in 1..Len(outcomes) :
    LET e == DecodedError(outcomes[k]) IN
    /\ e # Unbound => outcomes[k].end.exc # ""
    /\ (e.t = "dict" /\ HasKey(e, "message")) =>
         outcomes[k].end = RaiseArgs("Exception", <<DictGet(e, "message", PyNone)>>)

\* C9 witness: two calls decoded errors with the codes -32601 and -32603 and
\* the same message, and raised the same exception.
C9_Witness ==
  /\ Len(outcomes) = 2
  /\ HasCodeAndMessage(DecodedError(outcomes[1]))
  /\ HasCodeAndMessage(DecodedError(outcomes[2]))
  /\ DictGet(DecodedError(outcomes[1]), "code", PyNone)
       # DictGet(DecodedError(outcomes[2]), "code", PyNone)
  /\ outcomes[1].end = outcomes[2].end

\* The requests written and not yet resolved by the client's read, and the
\* places a request or its response can be while the server runs.
Outstanding ==
  Cardinality({k \in 1..Len(sent) : sent[k].written})
    - Cardinality({k \in 1..Len(outcomes) : outcomes[k].line # NoLine})
Unread == Len(srv_stdout) - cli_read
InFlight == Len(srv_stdin) + (IF srv_pc = "Dispatching" THEN 1 ELSE 0) + Unread

\* C10: at most one request is outstanding, the client is in its read exactly
\* while one is, and while the server runs the outstanding request is in
\* exactly one place: written and unread, being dispatched, or answered and
\* unread.  So the turns alternate: client writes, server reads, server
\* writes, client reads.
C10_SingleFlight ==
  /\ Outstanding \in {0, 1}
  /\ (Outstanding = 1) = (cli_pc = "reading")
  /\ Len(srv_stdin) <= 1
  /\ Unread <= 1
  /\ srv_pc # "Stopped" => InFlight = Outstanding

\* C10 witness: the answer to the third request is waiting for the client.
C10_Witness ==
  /\ request_id = 3
  /\ cli_pc = "reading"
  /\ Unread = 1
  /\ srv_pc = "Listening"

\* C11: the server prints only while it dispatches a line it has read: every
\* printed line answers one line read, a line that has not been through the
\* try statement has no answer yet, no line read has two answers, and so the
\* lines printed are never more than the lines read.
C11_NoUnsolicitedLine ==
  /\ Len(resp_log) = Len(srv_stdout)
  /\ \A i \in 1..Len(srv_stdout) : resp_log[i].line_no \in 1..Len(read_log)
  /\ \A n \in 1..Len(read_log) :
       /\ Cardinality(Responses(n)) <= 1
       /\ ~Dispatched(n) => Responses(n) = {}
  /\ \A i, j \in 1..Len(srv_stdout) :
       i < j => resp_log[i].line_no < resp_log[j].line_no
  /\ Len(srv_stdout) <= Len(read_log)

\* C11 witness: two lines read, both answered, and the server back in
\* readline.
C11_Witness ==
  /\ Len(read_log) = 2
  /\ Len(srv_stdout) = 2
  /\ srv_pc = "Listening"
  /\ srv_stdin = <<>>

\* C12: a send_request that is in its read does not stay there once the peer
\* has ended or a line is waiting: readline returns.  A read that met
\* the end of the stream, or a line that is not JSON, ended in an exception
\* raised to the caller, never in a returned result.
C12_BrokenReadFails ==
  /\ (cli_pc = "reading" /\ (srv_pc = "Stopped" \/ cli_read < Len(srv_stdout)))
       => readline_returns
  /\ \A k \in 1..Len(outcomes) :
       outcomes[k].line.kind \in {"eof", "garbage", "blank"} =>
         outcomes[k].end.exc = "JSONDecodeError"

\* C12 witness: the first call read a line that is not JSON and the second
\* met the end of the stream; both raised.
C12_Witness ==
  /\ Len(outcomes) = 2
  /\ outcomes[1].line = GarbageLine
  /\ outcomes[2].line = EndOfStream
  /\ outcomes[1].end.exc # ""
  /\ outcomes[2].end.exc # ""


\* The calls that failed because the peer process is gone: the write met a
\* closed pipe, or the read met the end of the stream.
PeerGone(k) ==
  \/ outcomes[k].end.exc = "BrokenPipeError"
  \/ outcomes[k].line = EndOfStream

\* C13: once a call has failed because the peer process is gone, main sends no
\* further request on the session: no request has an id later than the
\* failed call's.
C13_NoRequestAfterPeerGone ==
  \A k \in 1..Len(outcomes) :
    PeerGone(k) => \A j \in 1..Len(sent) : sent[j].id <= outcomes[k].id


\* The names in the Tool Descriptors of a tools/list response.
DescriptorNames(response) ==
  LET tools == DictGet(DictGet(response, "result", PyDict(<<>>)), "tools", PyList(<<>>))
  IN { DictGet(tools.elems[i], "name", PyNone) : i \in 1..Len(tools.elems) }

\* The names tools/list returns, whenever it is asked.
ListedNames ==
  DescriptorNames(handle_request(PyDict(<<Item("method", PyStr("tools/list"))>>),
                                 CHOOSE t \in Times : TRUE).val)

IsSuccess(response) == HasKey(response, "result") /\ ~HasKey(response, "error")

\* C14: every response to tools/list holds the same descriptor names, and a
\* tools/call request is answered with a result exactly when the name it
\* gives is one of them.
C14_CallableIffListed ==
  \A n \in 1..Len(read_log) :
    (Dispatched(n) /\ IsRequestLine(read_log[n])) =>
      LET req == RequestOf(read_log[n]) IN
      /\ DictGet(req, "method", PyNone) = PyStr("tools/list") =>
           /\ Cardinality(Responses(n)) = 1
           /\ \A i \in Responses(n) : DescriptorNames(Response(i)) = ListedNames
      /\ IsToolsCall(req) =>
           /\ Cardinality(Responses(n)) = 1
           /\ \A i \in Responses(n) :
                IsSuccess(Response(i)) <=> NamedTool(req) \in ListedNames

\* C14 witness: tools/list has been answered with the name get_current_time,
\* and then a call of that name with a result.
C14_Witness ==
  /\ Len(srv_stdout) = 2
  /\ IsRequestLine(Answered(1))
  /\ DictGet(RequestOf(Answered(1)), "method", PyNone) = PyStr("tools/list")
  /\ DescriptorNames(Response(1)) = {PyStr("get_current_time")}
  /\ IsRequestLine(Answered(2))
  /\ IsToolsCall(RequestOf(Answered(2)))
  /\ NamedTool(RequestOf(Answered(2))) = PyStr("get_current_time")
  /\ IsSuccess(Response(2))


\* The number of tool calls of the current turn that main has finished with,
\* the message appended for the k-th of them, and how its call_tool ended.
CallsDone == Len(turn.calls) - Len(tool_calls)
ResultBlock(k) == messages[2 + k].content[1]
CallEnd(k) == outcomes[turn.base + k].end

\* C15: in a turn with tool calls, messages holds after the user's and the
\* assistant's message one tool_result message per finished call, in the order
\* of the calls, each with the tool_use_id of its call.  A call that returned
\* gives its own result as content and no is_error; a call that raised gives
\* an "Error: ..." content with is_error true.  The loop is left only when
\* every call of the turn is finished.
C15_OneResultPerToolCall ==
  /\ CallsDone \in 0..Len(turn.calls)
  /\ turn.calls # <<>> =>
       /\ Len(messages) = 2 + CallsDone
       /\ messages[2] = assistant_message(turn.calls)
       /\ \A k \in 1..CallsDone :
            /\ messages[2 + k].role = "user"
            /\ Len(messages[2 + k].content) = 1
            /\ ResultBlock(k).type = "tool_result"
            /\ ResultBlock(k).tool_use_id = turn.calls[k].id
            /\ DictGet(RequestOf(sent[turn.base + k].line), "params", PyNone)
                 = ToolParams(turn.calls[k].name)
            /\ IF CallEnd(k).exc = ""
                 THEN /\ ResultBlock(k).content = CallEnd(k).val
                      /\ "is_error" \notin DOMAIN ResultBlock(k)
                 ELSE /\ "is_error" \in DOMAIN ResultBlock(k)
                      /\ ResultBlock(k).is_error = TRUE
                      /\ ResultBlock(k).content.t = "str"
                      /\ SubSeq(ResultBlock(k).content.v, 1, 7) = "Error: "
  /\ main_pc \in {"line109", "exited"} => tool_calls = <<>>
  /\ main_pc \in {"line150", "await150"} => tool_calls # <<>>

\* C15 witness: a turn of two calls is over; the first call failed and the
\* second returned, and both have their message.
C15_Witness ==
  /\ main_pc = "line109"
  /\ Len(turn.calls) = 2
  /\ Len(messages) = 4
  /\ CallEnd(1).exc # ""
  /\ CallEnd(2).exc = ""
  /\ "is_error" \in DOMAIN ResultBlock(1)
  /\ "is_error" \notin DOMAIN ResultBlock(2)


\* What a server that has dispatched nothing yet prints for a line, at some
\* time of the clock.
FreshResponses(line) == { try_body(line, Unbound, t).print : t \in Times }

IsInitialize(req) == DictGet(req, "method", PyNone) = PyStr("initialize")

\* Every line read before the n-th is an initialize request.
OnlyInitializesBefore(n) ==
  \A m \in 1..(n - 1) : IsRequestLine(read_log[m]) /\ IsInitialize(RequestOf(read_log[m]))

\* The lines printed for the n-th line read.
Printed(n) ==
  [i \in 1..Cardinality(Responses(n)) |-> srv_stdout[CHOOSE j \in Responses(n) : TRUE]]

\* C16: every initialize request is answered with the same payload,
\* protocolVersion "2025-03-26" and empty capabilities; and what the server
\* prints for a request that comes after any number of initialize requests
\* is what a server that has dispatched nothing prints for it.  The requests
\* are the lines that hold a JSON object, those nested too deep for the
\* decoder included.
C16_InitializeHasNoEffect ==
  \A n \in 1..Len(read_log) :
    (Dispatched(n) /\ (IsRequestLine(read_log[n]) \/ read_log[n] = DeepLine)) =>
      /\ (IsRequestLine(read_log[n]) /\ IsInitialize(RequestOf(read_log[n]))) =>
           /\ Cardinality(Responses(n)) = 1
           /\ \A i \in Responses(n) :
                /\ DictGet(Response(i), "result", PyNone) = initialize_result
                /\ ~HasKey(Response(i), "error")
      /\ OnlyInitializesBefore(n) => Printed(n) \in FreshResponses(read_log[n])


\* The methods handle_request knows.
KnownMethods == {PyStr("initialize"), PyStr("tools/list"), PyStr("tools/call")}

\* C17: a request whose method is none of initialize, tools/list and
\* tools/call, or that has no method, is answered by exactly one line, which
\* holds the error -32601 "Method not found" and no result.
C17_UnknownMethodIsMethodNotFound ==
  \A n \in 1..Len(read_log) :
    ( /\ Dispatched(n)
      /\ IsRequestLine(read_log[n])
      /\ DictGet(RequestOf(read_log[n]), "method", PyNone) \notin KnownMethods ) =>
        /\ Cardinality(Responses(n)) = 1
        /\ \A i \in Responses(n) :
             /\ ~HasKey(Response(i), "result")
             /\ DictGet(Response(i), "error", PyNone)
                  = ErrorValue("-32601", "Method not found")

\* C17 witness: a request with no method field and a request with the method
\* "bogus" have both been answered with an error.
C17_Witness ==
  /\ Len(srv_stdout) = 2
  /\ IsRequestLine(Answered(1)) /\ IsRequestLine(Answered(2))
  /\ ~HasKey(RequestOf(Answered(1)), "method")
  /\ DictGet(RequestOf(Answered(2)), "method", PyNone) = PyStr("bogus")
  /\ HasKey(Response(1), "error") /\ HasKey(Response(2), "error")


\* The method of the k-th request written by the client.
SentMethod(k) == DictGet(RequestOf(sent[k].line), "method", PyNone)

\* The k-th call has returned a value.
Returned(k) == k <= Len(outcomes) /\ outcomes[k].end.exc = ""

\* C18: the first request main sends is initialize with id 1 and the second
\* tools/list with id 2, sent after initialize returned; every later request
\* is a tools/call, sent after both returned; and when one of the two raised,
\* it is the last request of the session: the exception leaves main.
C18_SetupBeforeToolCalls ==
  /\ \A k \in 1..Len(sent) :
       /\ sent[k].id = k
       /\ k = 1 => SentMethod(k) = PyStr("initialize")
       /\ k = 2 => SentMethod(k) = PyStr("tools/list") /\ Returned(1)
       /\ k >= 3 => SentMethod(k) = PyStr("tools/call") /\ Returned(1) /\ Returned(2)
  /\ \A k \in {1, 2} :
       (k <= Len(outcomes) /\ outcomes[k].end.exc # "") =>
         Len(sent) = k /\ main_pc \in {"await102", "await103", "exited"}

\* C18 witness: initialize returned, tools/list raised, and main has ended
\* with two requests sent.
C18_Witness ==
  /\ Len(outcomes) = 2
  /\ Returned(1)
  /\ outcomes[2].end.exc # ""
  /\ main_pc = "exited"
  /\ Len(sent) = 2


\* C19: with the server of mcp_server.py as peer, the line that the call
\* with id n consumed is a response with id n, whether the calls before it
\* returned or raised.
C19_ConsumedLineMatchesId ==
  \A k \in 1..Len(outcomes) :
    /\ outcomes[k].id = k
    /\ outcomes[k].line.kind \in {"json", "eof", "none"}
    /\ outcomes[k].line.kind = "json" =>
         /\ outcomes[k].line = srv_stdout[k]
         /\ DictGet(Loads(outcomes[k].line.doc), "id", PyNone) = PyInt(ToString(k))

\* C19 witness: the fourth call has consumed a response after a call that
\* raised on an error response and a call that returned.
C19_Witness ==
  /\ Len(outcomes) = 4
  /\ outcomes[3].line.kind = "json" /\ outcomes[3].end.exc = "Exception"
  /\ outcomes[4].line.kind = "json" /\ outcomes[4].end.exc = ""


(***************************************************************************)
(* The chat application and the server under fair scheduling: the server   *)
(* process, when it can take a step, eventually takes it, and a readline   *)
(* of the client that can return eventually returns.  get_current_time     *)
(* returns, so a dispatch is one step.                                     *)
(***************************************************************************)
\* The steps of main_dispatch, told by what they do to srv_pc and srv_error:
\* the try statement is left, to the next readline or with the exception that
\* ends main.  A step that ends the server from outside sets srv_error to
\* "killed" and is none of them.
try_statement_ends ==
  /\ srv_pc = "Dispatching"
  /\ srv_pc' \in {"Listening", "Stopped"}
  /\ srv_error' \in {"", "UnboundLocalError", "AttributeError"}

SpecSysFair ==
  /\ SpecSys
  /\ WF_vars(main_readline)
  /\ WF_<<srv_pc, srv_error>>(try_statement_ends)
  /\ WF_vars(send_request_read)

\* C20: under fair scheduling of the server and of the client's read, a
\* send_request call that is in its read eventually completes: it returns a
\* result or raises.
C20_EveryCallCompletes == (cli_pc = "reading") ~> (cli_pc = "idle")

\* C20 witness: four calls have completed, the last with a result, and the
\* server is still running.
C20_Witness ==
  /\ cli_pc = "idle"
  /\ Len(outcomes) = 4
  /\ Len(sent) = 4
  /\ outcomes[4].end.exc = ""
  /\ srv_pc # "Stopped"

====
